---- MODULE Spec2Model ----
(***************************************************************************)
(* A model of the useApi hook of use-http-api (src/src/index.tsx).         *)
(*                                                                         *)
(* One hook instance is modelled: its six useState cells, the snapshot     *)
(* the last render returned to the consumer, the memoised sendRequest      *)
(* closure, the auto-trigger effect, the ambient ApiContext value and the  *)
(* requests handed to the transport (axios).  JavaScript runs each task to *)
(* completion; the continuation of `await axios(...)` is modelled one      *)
(* statement at a time, because a state setter called outside a React      *)
(* batch re-renders synchronously (legacy mode), while under automatic     *)
(* batching the render happens once at the end of the task.                *)
(***************************************************************************)
EXTENDS Naturals, Sequences, FiniteSets, TLC

VARIABLES
    batched,      \* TRUE: React batches setter calls made after an await
    mounted,      \* the component that calls useApi is mounted
    desc,         \* the descriptor object the consumer passes to useApi
    ctx,          \* the value of ApiContext in scope: [id, val]
    cells,        \* the useState cells: latest value set for each
    response,     \* the snapshot returned by the last render
    sendRequest,  \* the closure useCallback returned at the last render
    captured,     \* the closure the consumer kept from the first render
    effect,       \* the auto-trigger effect: deps of the last render, pending closure
    inv,          \* every sendRequest invocation so far, in call order
    lastCall,     \* what axios was called with last, and how, until it answers
    run           \* the continuation now executing: [i, pc, before]

vars == <<batched, mounted, desc, ctx, cells, response, sendRequest, captured, effect,
          inv, lastCall, run>>

----------------------------------------------------------------------------
(* Bounds *)

\* calls of sendRequest in one run
MaxInv == 2
\* times useCallback builds a new sendRequest after the first render
MaxFn == 1

----------------------------------------------------------------------------
(* JavaScript values *)

Undefined == "undefined"
Null == "null"
Absent == "absent"

\* the values JavaScript treats as false: undefined, null, false, 0, NaN, ''
Falsy == {Undefined, Null, "false", "0", "NaN", ""}

\* a || b
Or(a, b) == IF a \in Falsy THEN b ELSE a

Methods == {"GET", "POST", "PATCH", "PUT", "DELETE", "OPTIONS"}
BodyMethods == {"POST", "PATCH", "PUT"}

Urls == {"/users", "/posts"}
Payloads == {"p1"}

\* What the transport can answer the i-th call with.  axios builds a new
\* response object, body and error for every call, so those of different
\* calls are different values; status codes repeat.
Responses == <<"r1", "r2", "r3", "r4">>
Bodies == <<"b1", "b2", "b3", "b4">>
Statuses == <<"200", "201", "200", "201">>
Errors == <<"e1", "e2", "e3", "e4">>

CallOf(r) == CHOOSE i \in DOMAIN Responses : Responses[i] = r

\* response.data and response.status
ResponseData(r) == Bodies[CallOf(r)]
ResponseStatus(r) == Statuses[CallOf(r)]

Outcomes(i) == { [ok |-> TRUE, val |-> Responses[i]],
                 [ok |-> FALSE, val |-> Errors[i]] }

ConfigKeys == {"method", "url", "data", "headers"}

\* createContext({})
EmptyConfig == [k \in ConfigKeys |-> Absent]

\* a value an ApiContext.Provider passes: headers, and keys the hook sets too
ProvidedConfigs ==
    { [EmptyConfig EXCEPT !["headers"] = "h2", !["url"] = "/ambient",
                          !["data"] = "ambientData", !["method"] = "OPTIONS"] }

\* the values a Provider's re-render passes: a new object every time, with the
\* keys above or with none, as the default value has
ContextValues == {EmptyConfig} \cup ProvidedConfigs

\* Object.assign({}, over, base): the arguments the other way round
Assign_BaseWins(base, over) ==
    [k \in ConfigKeys |-> IF base[k] # Absent THEN base[k] ELSE over[k]]

\* Object.assign({}, base, over): own keys of over replace those of base
Assign(base, over) ==
    [k \in ConfigKeys |-> IF over[k] # Absent THEN over[k] ELSE base[k]]

----------------------------------------------------------------------------
(* Descriptors: the argument of useApi.  A key the consumer leaves out is   *)
(* not in the record's domain.                                              *)

Get(obj, key, default) == IF key \in DOMAIN obj THEN obj[key] ELSE default

\* bodyInline is not a key of the descriptor: it records whether the consumer's
\* component writes bodyData as an object literal, built anew at every render
Descriptor(m, inline) ==
    [method |-> m, url |-> "/users", bodyData |-> "bd", bodyInline |-> inline]

\* every method with bodyData, triggered by the consumer or by the hook
MethodDescriptors ==
    { Descriptor(m, FALSE) @@ [asEffect |-> FALSE] : m \in Methods }
        \cup { Descriptor(m, inline) : m \in Methods, inline \in BOOLEAN }

\* the README and the example app name the option autoTrigger, the hook asEffect
AutoOptions == { [autoTrigger |-> FALSE], [asEffect |-> FALSE], [asEffect |-> TRUE] }

\* the descriptors of the README's examples: GET by default with and without
\* defaultData, POST without bodyData, each with and without an option
ExampleDescriptors ==
    LET base == { [url |-> "/users", bodyInline |-> FALSE],
                  [url |-> "/users", bodyInline |-> FALSE, defaultData |-> "d0"],
                  [url |-> "/users", bodyInline |-> FALSE, method |-> "POST"] }
    IN  base \cup { d @@ o : d \in base, o \in AutoOptions }

Descriptors == MethodDescriptors \cup ExampleDescriptors

Method(d) == Get(d, "method", "GET")
\* asEffect = false, the default its doc comment states
AsEffect_DefaultFalse(d) == Get(d, "asEffect", FALSE)

AsEffect(d) == Get(d, "asEffect", TRUE)
Url(d) == d.url
DefaultData(d) == Get(d, "defaultData", Undefined)
BodyData(d) == Get(d, "bodyData", Undefined)

\* Object.is(previous bodyData, bodyData of this render) is false
FreshBodyData(d) == BodyData(d) # Undefined /\ d.bodyInline

----------------------------------------------------------------------------
(* Rendering *)

\* useState(null): defaultData is not read
InitialCells_NoDefault(d) ==
    [ initialLoad |-> TRUE,
      loading |-> FALSE,
      data |-> Null,
      error |-> Undefined,
      status |-> Undefined,
      responseObj |-> Undefined ]

InitialCells(d) ==
    [ initialLoad |-> TRUE,
      loading |-> FALSE,
      data |-> Or(DefaultData(d), Null),
      error |-> Undefined,
      status |-> Undefined,
      responseObj |-> Undefined ]

\* no useCallback: every render builds a new function
MakeSendRequest_NoMemo(memo, first, c, d, g) ==
    [ id |-> IF first THEN 0 ELSE memo.id + 1,
      method |-> Method(d),
      url |-> Url(d),
      globalConfig |-> g,
      initialLoad |-> c.initialLoad ]

\* useCallback(fn, [method, url, globalConfig])
MakeSendRequest(memo, first, c, d, g) ==
    IF first \/ memo.method # Method(d) \/ memo.url # Url(d)
             \/ memo.globalConfig.id # g.id
    THEN [ id |-> IF first THEN 0 ELSE memo.id + 1,
           method |-> Method(d),
           url |-> Url(d),
           globalConfig |-> g,
           initialLoad |-> c.initialLoad ]
    ELSE memo

\* useEffect(fn, [method, sendRequest, bodyData]) under `if (asEffect)`
MakeEffect(prev, first, fn, d) ==
    IF ~AsEffect(d) THEN prev
    ELSE [ method |-> Method(d),
           fn |-> fn,
           bodyData |-> BodyData(d),
           pending |-> \/ first
                       \/ prev.method # Method(d)
                       \/ prev.fn.id # fn.id
                       \/ FreshBodyData(d) ]

\* pendingOrLoading: loading
Snapshot_NoPending(c) ==
    [ loading |-> c.loading,
      data |-> c.data,
      error |-> c.error,
      status |-> c.status,
      initialLoad |-> c.initialLoad,
      pendingOrLoading |-> c.loading,
      responseObj |-> c.responseObj ]

Snapshot(c) ==
    [ loading |-> c.loading,
      data |-> c.data,
      error |-> c.error,
      status |-> c.status,
      initialLoad |-> c.initialLoad,
      pendingOrLoading |-> c.initialLoad \/ c.loading,
      responseObj |-> c.responseObj ]

NoEffect == [ method |-> "GET", fn |-> [id |-> 0], bodyData |-> Undefined,
              pending |-> FALSE ]

\* one call of useApi with state c, descriptor d and context value g; e is the
\* effect as the previous commit left it
Render(c, d, g, e) ==
    /\ response' = Snapshot(c)
    /\ sendRequest' = MakeSendRequest(sendRequest, FALSE, c, d, g)
    /\ effect' = MakeEffect(e, FALSE, sendRequest', d)

\* a state setter sets its cell whether or not the component it belonged to
\* is still there
Write_AfterUnmount(field, value) == [cells EXCEPT ![field] = value]

\* a state setter called with value: React sets the cell of a mounted
\* component and ignores the call once the component has unmounted
Write(field, value) ==
    IF mounted THEN [cells EXCEPT ![field] = value] ELSE cells

\* React re-renders when a setter changed a cell; a setter called with the
\* value the cell already holds bails out
Commit(c, e) ==
    IF mounted /\ Snapshot(c) # response
    THEN Render(c, desc, ctx, e)
    ELSE /\ effect' = e
         /\ UNCHANGED <<response, sendRequest>>

\* the cells a settlement leaves alone or overwrites
Held(c) == [ data |-> c.data, error |-> c.error, status |-> c.status,
             responseObj |-> c.responseObj ]

NoCells == Held(InitialCells([url |-> "/users"]))

Idle == [i |-> 0, pc |-> "idle", before |-> NoCells]

NoCall == [ n |-> 0, config |-> EmptyConfig, fn |-> [id |-> 0],
            requestData |-> Undefined, auto |-> FALSE ]

Init ==
    /\ batched \in BOOLEAN
    /\ mounted = TRUE
    /\ desc \in Descriptors
    /\ ctx = [id |-> 0, val |-> EmptyConfig]
    /\ cells = InitialCells(desc)
    /\ response = Snapshot(cells)
    /\ sendRequest = MakeSendRequest(NoEffect.fn, TRUE, cells, desc, ctx)
    /\ captured = sendRequest
    /\ effect = MakeEffect(NoEffect, TRUE, sendRequest, desc)
    /\ inv = <<>>
    /\ lastCall = NoCall
    /\ run = Idle

----------------------------------------------------------------------------
(* sendRequest *)

NoOutcome == [ok |-> FALSE, val |-> Undefined]
PendingPromise == [state |-> "pending", value |-> Undefined]

\* const requestConfig = {method, url, data: requestData}
RequestConfig(fn, requestData) ==
    [EmptyConfig EXCEPT !["method"] = fn.method, !["url"] = fn.url,
                        !["data"] = requestData]

\* Object.assign({}, globalConfig, requestConfig)
AxiosConfig(fn, requestData) ==
    Assign(fn.globalConfig.val, RequestConfig(fn, requestData))

\* sendRequest(requestData) up to its await: setLoading(true), then
\* axios(axiosConfig); e is the effect once this task has run
Call(fn, requestData, auto, e) ==
    /\ Len(inv) < MaxInv
    /\ cells' = Write("loading", TRUE)
    /\ inv' = Append(inv, [ auto |-> auto,
                            initialLoad |-> fn.initialLoad,
                            state |-> "pending",
                            order |-> 0,
                            outcome |-> NoOutcome,
                            promise |-> PendingPromise,
                            then |-> IF auto THEN "none" ELSE "waiting",
                            atCall |-> Held(cells) ])
    /\ lastCall' = [ n |-> Len(inv) + 1,
                     config |-> AxiosConfig(fn, requestData),
                     fn |-> fn,
                     requestData |-> requestData,
                     auto |-> auto ]
    /\ Commit(cells', e)

\* passive effects are flushed before React does anything else
Ready == ~effect.pending

\* the statement after `await axios(...)` resolves and the end of the
\* continuation, when the next pc is idle: the places where the running code
\* gives way to queued promise callbacks
AwaitPcs_AfterResolve == {"idle", "setLoading"}

\* the async executor has one await; past it the continuation runs to its end
AwaitPcs == {"idle"}

\* a callback chained on a settled promise is queued as a microtask
Queued(i) == inv[i].then = "waiting" /\ inv[i].promise.state # "pending"

\* microtasks run before the next task: a timer, an event, a response
NoMicrotask == \A i \in 1..Len(inv) : ~Queued(i)

\* the consumer calls a trigger function it holds, with or without an argument
Trigger(fn, requestData) ==
    /\ run = Idle
    /\ NoMicrotask
    /\ Ready
    /\ Call(fn, requestData, FALSE, effect)
    /\ UNCHANGED <<batched, mounted, desc, ctx, captured, run>>

\* the effect callback: sendRequest(bodyData) if the method allows a body,
\* else sendRequest()
RunEffect ==
    /\ effect.pending
    /\ run = Idle => NoMicrotask
    /\ Call(effect.fn,
            IF effect.method \in BodyMethods THEN effect.bodyData ELSE Undefined,
            TRUE,
            [effect EXCEPT !.pending = FALSE])
    /\ UNCHANGED <<batched, mounted, desc, ctx, captured, run>>

----------------------------------------------------------------------------
(* The transport settles and the continuation of the await runs *)

\* the calls whose await has returned or thrown
AnsweredCalls == { j \in 1..Len(inv) : inv[j].state # "pending" }

\* axios(axiosConfig) fulfils with a response or rejects with an error; order
\* counts the answers, this one included
Respond(i, o) ==
    /\ run = Idle
    /\ NoMicrotask
    /\ Ready
    /\ inv[i].state = "pending"
    /\ inv' = [inv EXCEPT ![i].state = "settling", ![i].outcome = o,
                          ![i].order = Cardinality(AnsweredCalls) + 1]
    /\ run' = [ i |-> i,
                pc |-> IF o.ok THEN "setResponseObj" ELSE "setError",
                before |-> Held(cells) ]
    /\ lastCall' = IF lastCall.n = i THEN NoCall ELSE lastCall
    /\ UNCHANGED <<batched, mounted, desc, ctx, cells, response, sendRequest,
                   captured, effect>>

\* one setter call of the continuation
Set(pc, field, value, next) ==
    /\ run.pc = pc
    /\ Ready
    /\ cells' = Write(field, value)
    /\ run' = [run EXCEPT !.pc = next]
    /\ IF batched THEN UNCHANGED <<response, sendRequest, effect>>
                  ELSE Commit(cells', effect)
    /\ UNCHANGED <<batched, mounted, desc, ctx, captured, inv, lastCall>>

\* resolve(...) or reject(...) of the promise sendRequest returned
Settle(pc, state, value) ==
    /\ run.pc = pc
    /\ Ready
    /\ inv' = [inv EXCEPT ![run.i].promise = [state |-> state, value |-> value]]
    /\ run' = [run EXCEPT !.pc = "setLoading"]
    /\ UNCHANGED <<batched, mounted, desc, ctx, cells, response, sendRequest,
                   captured, effect, lastCall>>

SetResponseObj ==
    /\ run.pc = "setResponseObj"
    /\ Set("setResponseObj", "responseObj", inv[run.i].outcome.val, "setData")

\* setData(response) instead of setData(response.data)
SetData_WholeResponse ==
    /\ run.pc = "setData"
    /\ Set("setData", "data", inv[run.i].outcome.val, "setStatus")

SetData ==
    /\ run.pc = "setData"
    /\ Set("setData", "data", ResponseData(inv[run.i].outcome.val), "setStatus")

\* setStatus(s => s || response.status): a status once set stays
SetStatus_KeepFirst ==
    /\ run.pc = "setStatus"
    /\ Set("setStatus", "status",
           Or(cells.status, ResponseStatus(inv[run.i].outcome.val)), "resolve")

SetStatus ==
    /\ run.pc = "setStatus"
    /\ Set("setStatus", "status", ResponseStatus(inv[run.i].outcome.val), "resolve")

\* resolve(data): the data of the last render instead of response.data
Resolve_RenderedData ==
    /\ run.pc = "resolve"
    /\ Settle("resolve", "fulfilled", response.data)

Resolve ==
    /\ run.pc = "resolve"
    /\ Settle("resolve", "fulfilled", ResponseData(inv[run.i].outcome.val))

\* setError(error): the state's error instead of the caught err
SetError_Stale ==
    /\ run.pc = "setError"
    /\ Set("setError", "error", cells.error, "reject")

SetError ==
    /\ run.pc = "setError"
    /\ Set("setError", "error", inv[run.i].outcome.val, "reject")

Reject ==
    /\ run.pc = "reject"
    /\ Settle("reject", "rejected", inv[run.i].outcome.val)

\* the finally block leaves loading as it is
SetLoadingFalse_Skipped == Set("setLoading", "loading", cells.loading, "setInitialLoad")

SetLoadingFalse == Set("setLoading", "loading", FALSE, "setInitialLoad")

\* if (!initialLoad) setInitialLoad(false)
SetInitialLoad_Negated ==
    /\ run.pc = "setInitialLoad"
    /\ Ready
    /\ cells' = IF ~inv[run.i].initialLoad
                THEN Write("initialLoad", FALSE)
                ELSE cells
    /\ inv' = [inv EXCEPT ![run.i].state = "settled", ![run.i].atCall = NoCells]
    /\ run' = Idle
    /\ Commit(cells', effect)
    /\ UNCHANGED <<batched, mounted, desc, ctx, captured, lastCall>>

\* if (initialLoad) setInitialLoad(false), with the initialLoad the closure
\* was created with; the task ends here and React renders what is queued
SetInitialLoad ==
    /\ run.pc = "setInitialLoad"
    /\ Ready
    /\ cells' = IF inv[run.i].initialLoad
                THEN Write("initialLoad", FALSE)
                ELSE cells
    /\ inv' = [inv EXCEPT ![run.i].state = "settled", ![run.i].atCall = NoCells]
    /\ run' = Idle
    /\ Commit(cells', effect)
    /\ UNCHANGED <<batched, mounted, desc, ctx, captured, lastCall>>

----------------------------------------------------------------------------
(* The consumer's code chained on the promise *)

\* trigger().then(f, f) or `await trigger()`: f runs as a microtask once the
\* promise has settled and the running code has reached an await or its end;
\* "late" if the continuation of the call had by then made all its setter
\* calls, "early" if not.  The effect drops the promise of the calls it makes.
Then(i) ==
    /\ Queued(i)
    /\ run.pc \in AwaitPcs
    /\ inv' = [inv EXCEPT ![i].then = IF inv[i].state = "settled"
                                      THEN "late" ELSE "early"]
    /\ UNCHANGED <<batched, mounted, desc, ctx, cells, response, sendRequest,
                   captured, effect, lastCall, run>>

----------------------------------------------------------------------------
(* The consumer's component renders again *)

Rerender(d, g) ==
    /\ mounted
    /\ run = Idle
    /\ NoMicrotask
    /\ Ready
    /\ MakeSendRequest(sendRequest, FALSE, cells, d, g).id <= MaxFn
    /\ desc' = d
    /\ ctx' = g
    /\ Render(cells, d, g, effect)
    /\ UNCHANGED <<batched, mounted, cells, captured, inv, lastCall, run>>

\* an ApiContext.Provider above passes a new value object
ChangeContext(v) == Rerender(desc, [id |-> ctx.id + 1, val |-> v])

ChangeUrl(u) == u # desc.url /\ Rerender([desc EXCEPT !.url = u], ctx)

ChangeMethod(m) == m # Method(desc) /\ Rerender([method |-> m] @@ desc, ctx)

\* the methods a re-render changes the descriptor to: one without a body, one with
NextMethods == {"GET", "POST"}

\* a render with the same props and context
RenderAgain == Rerender(desc, ctx)

----------------------------------------------------------------------------

Next ==
    \/ \E fn \in {sendRequest, captured}, p \in {Undefined} \cup Payloads :
          Trigger(fn, p)
    \/ RunEffect
    \/ \E i \in 1..Len(inv) : \E o \in Outcomes(i) : Respond(i, o)
    \/ SetResponseObj
    \/ SetData
    \/ SetStatus
    \/ Resolve
    \/ SetError
    \/ Reject
    \/ SetLoadingFalse
    \/ SetInitialLoad
    \/ \E i \in 1..Len(inv) : Then(i)
    \/ \E v \in ContextValues : ChangeContext(v)
    \/ \E u \in Urls : ChangeUrl(u)
    \/ \E m \in NextMethods : ChangeMethod(m)
    \/ RenderAgain

Spec == Init /\ [][Next]_vars

----------------------------------------------------------------------------
(* Teardown *)

\* React unmounts the component.  useApi registers no cleanup: requests in
\* flight are not cancelled, and their continuations run when axios settles.
Unmount ==
    /\ mounted
    /\ run = Idle
    /\ NoMicrotask
    /\ Ready
    /\ mounted' = FALSE
    /\ UNCHANGED <<batched, desc, ctx, cells, response, sendRequest, captured,
                   effect, inv, lastCall, run>>

\* the consumer may still call a trigger function it holds, from a timer
TeardownNext == Next \/ Unmount

\* the components of the README's examples, which may unmount
TeardownInit == Init /\ desc \in ExampleDescriptors

TeardownSpec == TeardownInit /\ [][TeardownNext]_vars

----------------------------------------------------------------------------
(* Properties *)

Calls == 1..Len(inv)
InFlight(i) == inv[i].state = "pending"
Settled(i) == inv[i].state = "settled"

\* this step ends the continuation of a call the transport answered / failed
Succeeds == run.pc = "setInitialLoad" /\ run' = Idle /\ inv[run.i].outcome.ok
Fails == run.pc = "setInitialLoad" /\ run' = Idle /\ ~inv[run.i].outcome.ok

\* the snapshot shows the response of call i
Shows(snap, i) ==
    /\ snap.data = Bodies[i]
    /\ snap.status = Statuses[i]
    /\ snap.responseObj = Responses[i]

\* the snapshot shows the data, status and responseObj held in h
Keeps(snap, h) ==
    /\ snap.data = h.data
    /\ snap.status = h.status
    /\ snap.responseObj = h.responseObj

C3_LoadingWhileInFlight ==
    \A i \in Calls : InFlight(i) => response.loading

AutoCalls == { i \in Calls : inv[i].auto }

\* C4, as claimed: the hook calls the transport automatically at most once in
\* the lifetime of the instance.
C4_OneAutoCall == Cardinality(AutoCalls) <= 1

\* C5, as claimed: a trigger called without an argument sends bodyData when
\* the method is POST, PATCH or PUT, and no body otherwise.
C5_BodyDataFallback ==
    (lastCall.n > 0 /\ ~lastCall.auto /\ lastCall.requestData = Undefined)
        => lastCall.config["data"] =
               IF lastCall.config["method"] \in BodyMethods
               THEN BodyData(desc) ELSE Undefined

\* the descriptor asks for no automatic request, under either name of the option
AutoDisabled(d) ==
    ~Get(d, "autoTrigger", TRUE) \/ ~Get(d, "asEffect", TRUE)

\* C6, as claimed: when the descriptor disables the automatic request, the
\* transport is not called before the consumer calls trigger.
C6_NoCallUntilTrigger ==
    AutoDisabled(desc) => \A i \in Calls : ~inv[i].auto

\* C7: initialLoad is true as long as no call has settled and false ever
\* after the first settlement, so it never returns to true.
C7_InitialLoad ==
    response.initialLoad = (\A i \in Calls : ~Settled(i))

\* a second call settles after the first one has, and initialLoad is false
C7_Witness ==
    /\ \E i, j \in Calls : i # j /\ Settled(i) /\ Settled(j)
    /\ ~response.initialLoad
    /\ ~sendRequest.initialLoad

\* C8: loading is true only while some call has not settled.
C8_LoadingOnlyInFlight ==
    response.loading => \E i \in Calls : ~Settled(i)

\* every call made has settled, two of them, and loading is false
C8_Witness ==
    /\ Len(inv) >= 2
    /\ \A i \in Calls : Settled(i)
    /\ ~response.loading

\* C9: in every snapshot pendingOrLoading is initialLoad or loading.
C9_PendingOrLoading ==
    response.pendingOrLoading = (response.initialLoad \/ response.loading)

\* a snapshot after the first settlement, while a later call is in flight
C9_Witness ==
    /\ ~response.initialLoad
    /\ response.loading
    /\ response.pendingOrLoading

\* C10: the promise of a call is fulfilled with that call's response body if
\* the transport answered and rejected with the transport's error if it
\* failed, never the other way round; when it is rejected, error holds the
\* value it was rejected with.
C10_Promise ==
    \A i \in Calls :
        /\ (run.i = i /\ inv[i].promise.state = "rejected")
              => cells.error = inv[i].promise.value
        /\ inv[i].promise.state = "fulfilled"
              => inv[i].outcome.ok /\ inv[i].promise.value = Bodies[i]
        /\ inv[i].promise.state = "rejected"
              => ~inv[i].outcome.ok /\ inv[i].promise.value = Errors[i]
        /\ Settled(i) => inv[i].promise.state =
                             IF inv[i].outcome.ok THEN "fulfilled" ELSE "rejected"

\* one call's promise is fulfilled and another's is rejected
C10_Witness ==
    \E i, j \in Calls :
        /\ Settled(i) /\ inv[i].promise = [state |-> "fulfilled", value |-> Bodies[i]]
        /\ Settled(j) /\ inv[j].promise = [state |-> "rejected", value |-> Errors[j]]

\* C11: the config axios receives is the ambient config the trigger function
\* holds, overlaid with {method, url, data}: headers pass through unchanged,
\* method and url are the hook's, and data is the argument of the call, also
\* when it differs from bodyData or is undefined while the ambient config
\* names a data of its own.
C11_AxiosConfig ==
    lastCall.n > 0 =>
        /\ lastCall.config["headers"] = lastCall.fn.globalConfig.val["headers"]
        /\ lastCall.config["method"] = lastCall.fn.method
        /\ lastCall.config["url"] = lastCall.fn.url
        /\ lastCall.config["data"] = lastCall.requestData

\* the consumer calls trigger with a payload other than bodyData, under an
\* ambient config that names headers and its own method, url and data
C11_Witness ==
    /\ lastCall.n > 0 /\ ~lastCall.auto
    /\ lastCall.fn.globalConfig.val \in ProvidedConfigs
    /\ lastCall.requestData \in Payloads
    /\ BodyData(desc) \notin {Undefined, lastCall.requestData}
    /\ lastCall.config["headers"] = "h2"
    /\ lastCall.config["url"] = lastCall.fn.url
    /\ lastCall.config["data"] = lastCall.requestData

\* the transport has answered call i with a response
Answered(i) == inv[i].state # "pending" /\ inv[i].outcome.ok

\* C12: until the transport has answered a call with a response, data is the
\* descriptor's defaultData, or null when the descriptor has none, whatever
\* calls have been made or have failed.
C12_DefaultDataUntilSuccess ==
    (\A i \in Calls : ~Answered(i))
        => response.data = Get(desc, "defaultData", Null)

\* a descriptor with defaultData, after one call has failed and while a
\* second one is in flight
C12_Witness ==
    /\ "defaultData" \in DOMAIN desc
    /\ response.data = desc.defaultData
    /\ \E i, j \in Calls : Settled(i) /\ ~inv[i].outcome.ok /\ InFlight(j)

\* C13, as claimed: a render keeps the identity of the trigger function when
\* method, url and the content of the ambient config are what they were.
C13_StableWhileConfigEqual ==
    [][(/\ Method(desc') = Method(desc)
        /\ Url(desc') = Url(desc)
        /\ ctx'.val = ctx.val) => sendRequest'.id = sendRequest.id]_vars

\* C13, amended: a render keeps the identity of the trigger function when
\* method, url and the identity of the ambient config object are what they
\* were, whatever state has changed; so the identity changes only with one of
\* those three.
C13_StableWhileDepsSame ==
    [][(/\ Method(desc') = Method(desc)
        /\ Url(desc') = Url(desc)
        /\ ctx'.id = ctx.id) => sendRequest'.id = sendRequest.id]_vars

\* renders after a call and after its settlement have returned the trigger
\* function of the first render: it still holds the initialLoad of that render
C13_Witness ==
    /\ \E i \in Calls : Settled(i)
    /\ ~response.initialLoad
    /\ sendRequest.id = 0
    /\ sendRequest.initialLoad

\* the descriptor names the option under neither of its names
AutoOmitted(d) == DOMAIN d \cap {"asEffect", "autoTrigger"} = {}

LastSettled(i) ==
    /\ Settled(i)
    /\ \A j \in Calls :
           (Settled(j) /\ inv[j].outcome.ok = inv[i].outcome.ok)
               => inv[j].order <= inv[i].order

\* C15: between settlements, data, status and responseObj are those of the
\* successful call that settled last and error is that of the failed call
\* that settled last, in whatever order the calls were made.
C15_LastSettlementWins ==
    run = Idle =>
        \A i \in Calls :
            LastSettled(i) => IF inv[i].outcome.ok
                              THEN Shows(response, i)
                              ELSE response.error = Errors[i]

\* two calls overlapped, the second made was the first to settle, and the
\* snapshot shows the response of the first made
C15_Witness ==
    /\ run = Idle
    /\ \E i, j \in Calls :
           /\ i < j /\ inv[j].order < inv[i].order
           /\ Settled(i) /\ Settled(j)
           /\ inv[i].outcome.ok /\ inv[j].outcome.ok
           /\ Shows(response, i)

\* C16, as claimed: in every snapshot that has a responseObj, data is the body
\* of that response and status is its status code.
C16_UpdatedTogether ==
    response.responseObj # Undefined =>
        /\ response.data = ResponseData(response.responseObj)
        /\ response.status = ResponseStatus(response.responseObj)

\* C17, as claimed: the hook comes to rest once the transport has answered
\* the calls made and the consumer makes no more.  For that the settlement of
\* a call must not make the hook call the transport again: no step of a
\* continuation queues the auto-trigger effect.
C17_SettlementQueuesNoCall ==
    [][(run # Idle /\ ~effect.pending) => ~effect'.pending]_vars

Settles == run.pc = "setInitialLoad" /\ run' = Idle

C20_ContinuationAfterUpdates ==
    \A i \in Calls : inv[i].then # "early"

\* the code chained on a fulfilled promise and on a rejected one has run
C20_Witness ==
    \E i, j \in Calls :
        /\ inv[i].then = "late" /\ inv[i].promise.state = "fulfilled"
        /\ inv[j].then = "late" /\ inv[j].promise.state = "rejected"
        /\ ~cells.initialLoad

====
